---------------------------- MODULE Spec2Model ----------------------------
(***************************************************************************)
(* Model of fetch_stats.py: the NFL week resolver (get_current_nfl_week),  *)
(* the Sleeper fetch/join pipeline (fetch_and_process_data), the main      *)
(* block's snap-count filter and the Google-Sheet update                   *)
(* (update_google_sheet: findall, delete_rows bottom-up, append_rows).     *)
(*                                                                         *)
(* Three specifications share the definitions:                             *)
(*   SpecWeek  the clock advances and the resolver is evaluated each time  *)
(*   Spec      one run of the script, start to finish                      *)
(*   SpecTwo   two overlapping runs against the same worksheet, each of    *)
(*             which may be interrupted between two worksheet calls        *)
(***************************************************************************)
EXTENDS Integers, Sequences, FiniteSets, TLC

VARIABLES
    now,                \* datetime.utcnow(): [year, month, day, tick]
    YEAR, WEEK,         \* module globals set by get_current_nfl_week()
    GOOGLE_CREDENTIALS_JSON, \* os.environ.get('GOOGLE_CREDENTIALS_JSON')
    pc,                 \* per run: position in the script
    requests,           \* per run: the HTTP exchanges made, <<endpoint, status>>
    player_map,         \* per run: local of fetch_and_process_data
    weekly_stats_data,  \* per run: local of fetch_and_process_data (SpecJoin)
    processed_records,  \* per run: result of fetch_and_process_data
    df,                 \* per run: the DataFrame handed to update_google_sheet
    creds,              \* per run: outcome of the credential loading
    rows_to_delete,     \* per run: row positions still to delete, bottom-up
    ops,                \* per run: worksheet calls issued so far (counts)
    finished,           \* per run: "Script finished." has been printed
    sheet,              \* the worksheet: a sequence of rows (lists of cells)
    sheet0              \* the worksheet as it was before any run (history)

vars == <<now, YEAR, WEEK, GOOGLE_CREDENTIALS_JSON, pc, requests, player_map,
          weekly_stats_data,
          processed_records, df, creds, rows_to_delete, ops, finished,
          sheet, sheet0>>

runVars == <<pc, requests, player_map, weekly_stats_data, processed_records, df, creds,
             rows_to_delete, ops, finished>>

None == "None"

(***************************************************************************)
(* Bounds of the model.                                                    *)
(***************************************************************************)
FirstYear == 2019       \* the clock of SpecWeek starts on 1 January of it
NumYears == 12          \* and runs through this many calendar years
TicksPerDay == 2        \* instants distinguished within one day
MaxSheetRows == 4       \* rows in the worksheet before the run
MaxSnap == 2            \* largest off_snp value in a stats response

LastYear == FirstYear + NumYears - 1

(***************************************************************************)
(* datetime: proleptic Gregorian calendar arithmetic as Python does it.    *)
(***************************************************************************)
IsLeap(y) == (y % 4 = 0) /\ ((y % 100 # 0) \/ (y % 400 = 0))

DaysInMonth(y, m) ==
    IF m = 2 THEN (IF IsLeap(y) THEN 29 ELSE 28)
    ELSE IF m \in {4, 6, 9, 11} THEN 30 ELSE 31

DaysBeforeYear(y) ==
    (y - 1) * 365 + ((y - 1) \div 4) - ((y - 1) \div 100) + ((y - 1) \div 400)

RECURSIVE DaysBeforeMonth(_, _)
DaysBeforeMonth(y, m) ==
    IF m = 1 THEN 0 ELSE DaysBeforeMonth(y, m - 1) + DaysInMonth(y, m - 1)

datetime(y, m, d) == [year |-> y, month |-> m, day |-> d, tick |-> 0]

toordinal(dt) ==
    DaysBeforeYear(dt.year) + DaysBeforeMonth(dt.year, dt.month) + dt.day

\* datetime.weekday(): Monday = 0 ... Sunday = 6
weekday(dt) == (toordinal(dt) + 6) % 7

\* a < b on datetimes
datetime_lt(a, b) ==
    \/ toordinal(a) < toordinal(b)
    \/ toordinal(a) = toordinal(b) /\ a.tick < b.tick

\* (a - b).days for a >= b: whole days of the difference, rounded down
timedelta_days(a, b) ==
    ((toordinal(a) * TicksPerDay + a.tick)
        - (toordinal(b) * TicksPerDay + b.tick)) \div TicksPerDay

\* str(n) for n >= 0, as the sequence of its decimal digits
RECURSIVE str(_)
str(n) == IF n < 10 THEN <<n>> ELSE Append(str(n \div 10), n % 10)

\* the number a decimal string denotes
RECURSIVE IntOf(_)
IntOf(s) ==
    IF Len(s) = 0 THEN 0
    ELSE 10 * IntOf(SubSeq(s, 1, Len(s) - 1)) + s[Len(s)]

(***************************************************************************)
(* get_current_nfl_week                                                    *)
(***************************************************************************)
\* for day in range(1, 8): first d = datetime(year, 9, day) with weekday 1
RECURSIVE first_tuesday_from(_, _)
first_tuesday_from(year, day) ==
    IF day >= 8 THEN None
    ELSE IF weekday(datetime(year, 9, day)) = 1 THEN datetime(year, 9, day)
    ELSE first_tuesday_from(year, day + 1)

first_tuesday_sept(year) == first_tuesday_from(year, 1)

\* faulty variant: the week count starts at 0
week_since_zero_based(n, anchor) == timedelta_days(n, anchor) \div 7

week_since(n, anchor) == (timedelta_days(n, anchor) \div 7) + 1

\* faulty variant: the offseason keeps the current year
offseason_result_same_year(year) == <<str(year), str(18)>>

\* faulty variant: the previous season is taken to end with week 17
offseason_result_week17(year) == <<str(year - 1), str(17)>>

offseason_result(year) == <<str(year - 1), str(18)>>

get_current_nfl_week(n) ==
    LET year == n.year
        anchor == first_tuesday_sept(year)
    IN  IF datetime_lt(n, anchor) THEN offseason_result(year)
        ELSE LET week == week_since(n, anchor)
             IN  <<str(year), str(IF week <= 18 THEN week ELSE 18)>>


(***************************************************************************)
(* Data of the pipeline.                                                   *)
(***************************************************************************)
Runs == {1, 2}

Ids == {"1", "2", "3"}

\* dict.get(key, default)
get(d, k, default) == IF k \in DOMAIN d THEN d[k] ELSE default

\* The player objects the roster endpoint can return; every field is optional.
PlayerObject(id) ==
    IF id = "1" THEN [first_name |-> "Jon", last_name |-> "Doe",
                      team |-> "ABC", position |-> "WR"]
    ELSE IF id = "2" THEN [last_name |-> "Roe", position |-> "RB"]
    ELSE [first_name |-> "Max", team |-> "XYZ"]

\* players_response.json(): identifier -> player object, for any set of players
RosterResponses == { [id \in S |-> PlayerObject(id)] : S \in SUBSET Ids }

EmptyStats == [k \in {} |-> 0]

\* The stat objects the weekly endpoint can return; every field is optional.
StatObjects ==
    {EmptyStats} \cup { [off_snp |-> v] : v \in 0..MaxSnap }
                 \cup { [rec |-> 3, rec_yd |-> 40, off_snp |-> 1] }

DistinctIds(s) == \A i, j \in 1..Len(s) : i # j => s[i][1] # s[j][1]

\* stats_response.json(): <<identifier, stat object>> pairs in iteration order
StatsOver(ids, objects) ==
    { s \in UNION { [1..k -> ids \X objects] : k \in 0..Cardinality(ids) } :
        DistinctIds(s) }

StatsResponses == StatsOver(Ids, StatObjects)

Statuses == {200, 404, 500}

NonEmpty(x) == x # ""

\* f"{first} {last}".strip(), kept as the sequence of its words
full_name(player_info) ==
    SelectSeq(<<get(player_info, "first_name", ""),
                get(player_info, "last_name", "")>>, NonEmpty)

build_player_map(players_data) ==
    [id \in DOMAIN players_data |->
        [name |-> full_name(players_data[id]),
         team |-> get(players_data[id], "team", "N/A"),
         position |-> get(players_data[id], "position", "N/A")]]

\* player_info = player_map.get(player_id); the row is built unless "not player_info"
in_roster(pm, player_id) == player_id \in DOMAIN pm

make_record(week, player_info, stats) ==
    [Week |-> week,
     PlayerName |-> player_info.name,
     Team |-> player_info.team,
     Position |-> player_info.position,
     Receptions |-> get(stats, "rec", 0),
     ReceivingYards |-> get(stats, "rec_yd", 0),
     ReceivingTDs |-> get(stats, "rec_td", 0),
     RushingYards |-> get(stats, "rush_yd", 0),
     RushingTDs |-> get(stats, "rush_td", 0),
     PassingAttempts |-> get(stats, "pass_att", 0),
     Targets |-> get(stats, "rec_tgt", 0),
     SnapCounts |-> get(stats, "off_snp", 0)]

\* faulty variant: "break" in place of "continue" at an identifier the roster lacks
RECURSIVE join_break(_, _, _)
join_break(pm, items, week) ==
    IF items = <<>> THEN <<>>
    ELSE IF in_roster(pm, Head(items)[1])
         THEN <<make_record(week, pm[Head(items)[1]], Head(items)[2])>>
                  \o join_break(pm, Tail(items), week)
         ELSE <<>>

\* the loop over weekly_stats_data.items() building all_player_stats
RECURSIVE join(_, _, _)
join(pm, items, week) ==
    IF items = <<>> THEN <<>>
    ELSE LET player_id == Head(items)[1]
             stats == Head(items)[2]
             rest == join(pm, Tail(items), week)
         IN  IF in_roster(pm, player_id)
             THEN <<make_record(week, pm[player_id], stats)>> \o rest
             ELSE rest

\* faulty variant: ">=" in place of ">"
snap_filter_nonnegative(record) == record.SnapCounts >= 0

\* df['SnapCounts'] > 0
snap_filter(record) == record.SnapCounts > 0

\* df = df[df['SnapCounts'] > 0]
filter_snaps(records) == SelectSeq(records, snap_filter)

\* one row of df[[...]].values.tolist()
row_of(rec) ==
    <<rec.Week, rec.PlayerName, rec.Team, rec.Position, rec.Receptions,
      rec.ReceivingYards, rec.ReceivingTDs, rec.RushingYards, rec.RushingTDs,
      rec.PassingAttempts, rec.Targets, rec.SnapCounts>>

values_tolist(d) == [i \in 1..Len(d) |-> row_of(d[i])]

(***************************************************************************)
(* The worksheet.                                                          *)
(***************************************************************************)
\* sheet.findall(week, in_column=1): positions of the rows whose first cell matches
findall(sh, week) == { i \in 1..Len(sh) : sh[i][1] = week }

SetMax(S) == CHOOSE x \in S : \A y \in S : y <= x

SetMin(S) == CHOOSE x \in S : \A y \in S : x <= y

\* faulty variant: the positions are sorted top-down
RECURSIVE sorted_ascending(_)
sorted_ascending(S) ==
    IF S = {} THEN <<>> ELSE <<SetMin(S)>> \o sorted_ascending(S \ {SetMin(S)})

\* sorted(rows_to_delete, reverse=True)
RECURSIVE sorted_reverse(_)
sorted_reverse(S) ==
    IF S = {} THEN <<>> ELSE <<SetMax(S)>> \o sorted_reverse(S \ {SetMax(S)})

\* faulty variant: the position is taken as 0-based
delete_rows_zero_based(sh, row_index) ==
    IF row_index + 1 \in 1..Len(sh)
    THEN SubSeq(sh, 1, row_index) \o SubSeq(sh, row_index + 2, Len(sh))
    ELSE sh

\* sheet.delete_rows(row_index): rows below move up; a position below the
\* last data row is an empty grid row
delete_rows(sh, row_index) ==
    IF row_index \in 1..Len(sh)
    THEN SubSeq(sh, 1, row_index - 1) \o SubSeq(sh, row_index + 1, Len(sh))
    ELSE sh

\* sheet.append_rows(values): the batch goes after the last data row
append_rows(sh, values) == sh \o values

\* A row written by an earlier run, told apart by its original position.
OldRow(week, i) == <<week, <<"old">>, "N/A", "N/A", i, 0, 0, 0, 0, 0, 0, 1>>

\* Instants at which the script is started in Spec and SpecTwo.
SampleNow ==
    { [year |-> 2024, month |-> 10, day |-> 1, tick |-> 1],
      [year |-> 2025, month |-> 3, day |-> 1, tick |-> 0] }

SheetWeeks == { get_current_nfl_week(n)[2] : n \in SampleNow }

Sheets ==
    { [i \in 1..Len(w) |-> OldRow(w[i], i)] :
        w \in UNION { [1..k -> SheetWeeks] : k \in 0..MaxSheetRows } }

(***************************************************************************)
(* Values of one run.                                                      *)
(***************************************************************************)
\* A Python value that is either None or a list
NoneVal == [some |-> FALSE, val |-> <<>>]
ListVal(l) == [some |-> TRUE, val |-> l]

\* "if x:" on None or a list
truthy(x) == x.some /\ x.val # <<>>

NoMap == [k \in {} |-> 0]
NoOps == [findall |-> 0, delete_rows |-> 0, append_rows |-> 0]

CredentialValues == {None, "not json", "valid"}
LocalFileStates == {"absent", "malformed", "valid"}

InitRuns(started) ==
    /\ pc = [r \in Runs |-> IF r \in started THEN "start" ELSE "idle"]
    /\ requests = [r \in Runs |-> <<>>]
    /\ player_map = [r \in Runs |-> NoMap]
    /\ weekly_stats_data = [r \in Runs |-> <<>>]
    /\ processed_records = [r \in Runs |-> NoneVal]
    /\ df = [r \in Runs |-> NoneVal]
    /\ creds = [r \in Runs |-> "unset"]
    /\ rows_to_delete = [r \in Runs |-> <<>>]
    /\ ops = [r \in Runs |-> NoOps]
    /\ finished = [r \in Runs |-> FALSE]

\* YEAR, WEEK = get_current_nfl_week() at the instant the script is loaded
LoadAt(n) ==
    /\ now = n
    /\ YEAR = get_current_nfl_week(n)[1]
    /\ WEEK = get_current_nfl_week(n)[2]

Init ==
    /\ \E n \in SampleNow : LoadAt(n)
    /\ GOOGLE_CREDENTIALS_JSON \in CredentialValues
    /\ sheet \in Sheets
    /\ sheet0 = sheet
    /\ InitRuns({1})

\* faulty variant: only server errors count as a failed fetch
is_error_server_only(status) == status >= 500

\* response.status_code != 200
is_error(status) == status # 200

(***************************************************************************)
(* fetch_and_process_data                                                  *)
(***************************************************************************)
\* requests.get(players/nfl), the status check and the player_map loop
FetchPlayers(r, rosters) ==
    /\ pc[r] = "start"
    /\ \E status \in Statuses :
        /\ requests' = [requests EXCEPT ![r] = Append(@, <<"players/nfl", status>>)]
        /\ IF is_error(status)
           THEN /\ processed_records' = [processed_records EXCEPT ![r] = NoneVal]
                /\ pc' = [pc EXCEPT ![r] = "fetched"]
                /\ UNCHANGED player_map
           ELSE /\ \E players_data \in rosters :
                    player_map' = [player_map EXCEPT ![r] = build_player_map(players_data)]
                /\ pc' = [pc EXCEPT ![r] = "players"]
                /\ UNCHANGED processed_records
    /\ UNCHANGED <<now, YEAR, WEEK, GOOGLE_CREDENTIALS_JSON, weekly_stats_data, df,
                   creds, rows_to_delete, ops, finished, sheet, sheet0>>

\* requests.get(stats/nfl/regular/year/week), the status check and the join loop
FetchStats(r, responses) ==
    /\ pc[r] = "players"
    /\ \E status \in Statuses :
        /\ requests' = [requests EXCEPT ![r] = Append(@, <<"stats/nfl/regular", status>>)]
        /\ IF is_error(status)
           THEN processed_records' = [processed_records EXCEPT ![r] = NoneVal]
           ELSE \E response \in responses :
                    processed_records' = [processed_records EXCEPT ![r] =
                        ListVal(join(player_map[r], response, WEEK))]
    /\ player_map' = [player_map EXCEPT ![r] = NoMap]
    /\ pc' = [pc EXCEPT ![r] = "fetched"]
    /\ UNCHANGED <<now, YEAR, WEEK, GOOGLE_CREDENTIALS_JSON, weekly_stats_data, df,
                   creds, rows_to_delete, ops, finished, sheet, sheet0>>

(***************************************************************************)
(* __main__: from the return of fetch_and_process_data to the call of      *)
(* update_google_sheet, or to "Script finished." when there is no call     *)
(***************************************************************************)
Main(r) ==
    /\ pc[r] = "fetched"
    /\ IF truthy(processed_records[r])
       THEN LET frame == processed_records[r].val      \* pd.DataFrame(records)
            IN  IF frame # <<>>                         \* not df.empty
                THEN /\ df' = [df EXCEPT ![r] = ListVal(filter_snaps(frame))]
                     /\ pc' = [pc EXCEPT ![r] = "update"]
                     /\ UNCHANGED finished
                ELSE /\ pc' = [pc EXCEPT ![r] = "done"]
                     /\ finished' = [finished EXCEPT ![r] = TRUE]
                     /\ UNCHANGED df
       ELSE /\ pc' = [pc EXCEPT ![r] = "done"]
            /\ finished' = [finished EXCEPT ![r] = TRUE]
            /\ UNCHANGED df
    /\ UNCHANGED <<now, YEAR, WEEK, GOOGLE_CREDENTIALS_JSON, requests, player_map,
                   weekly_stats_data,
                   processed_records, creds, rows_to_delete, ops, sheet, sheet0>>

(***************************************************************************)
(* update_google_sheet                                                     *)
(***************************************************************************)
\* the try/except around the two credential sources: which one served, or
\* the exception the fallback raised
load_credentials(secret, local_file) ==
    IF secret = "valid" THEN "env"                 \* json.loads + keyfile_dict
    ELSE IF local_file = "valid" THEN "file"       \* bare except: fall back
    ELSE IF local_file = "absent" THEN "FileNotFoundError"
    ELSE "ValueError"

\* faulty variant: the "return" after FileNotFoundError is missing
after_credentials_no_return(outcome) ==
    IF outcome \in {"env", "file", "FileNotFoundError"} THEN "connected"
    ELSE "crashed"

\* where the run goes next: on to authorize/open, "return" into __main__ on
\* FileNotFoundError, or out of the script with any other exception
after_credentials(outcome) ==
    IF outcome \in {"env", "file"} THEN "connected"
    ELSE IF outcome = "FileNotFoundError" THEN "done"
    ELSE "crashed"

LoadCredentials(r) ==
    /\ pc[r] = "update"
    /\ \E local_file \in LocalFileStates :
        LET outcome == load_credentials(GOOGLE_CREDENTIALS_JSON, local_file)
        IN  /\ creds' = [creds EXCEPT ![r] = outcome]
            /\ pc' = [pc EXCEPT ![r] = after_credentials(outcome)]
            /\ finished' = [finished EXCEPT ![r] = (after_credentials(outcome) = "done")]
    /\ UNCHANGED <<now, YEAR, WEEK, GOOGLE_CREDENTIALS_JSON, requests, player_map,
                   weekly_stats_data,
                   processed_records, df, rows_to_delete, ops, sheet, sheet0>>

\* cell_list = sheet.findall(week_to_update, in_column=1) and the sort
FindAll(r) ==
    /\ pc[r] = "connected"
    /\ LET cell_list == findall(sheet, WEEK)
       IN  /\ rows_to_delete' = [rows_to_delete EXCEPT ![r] = sorted_reverse(cell_list)]
           /\ pc' = [pc EXCEPT ![r] = IF cell_list # {} THEN "delete" ELSE "append"]
    /\ ops' = [ops EXCEPT ![r].findall = @ + 1]
    /\ UNCHANGED <<now, YEAR, WEEK, GOOGLE_CREDENTIALS_JSON, requests, player_map,
                   weekly_stats_data,
                   processed_records, df, creds, finished, sheet, sheet0>>

\* one iteration of "for row_index in sorted(...): sheet.delete_rows(row_index)"
DeleteRow(r) ==
    /\ pc[r] = "delete"
    /\ sheet' = delete_rows(sheet, Head(rows_to_delete[r]))
    /\ rows_to_delete' = [rows_to_delete EXCEPT ![r] = Tail(@)]
    /\ ops' = [ops EXCEPT ![r].delete_rows = @ + 1]
    /\ pc' = [pc EXCEPT ![r] = IF Tail(rows_to_delete[r]) = <<>> THEN "append" ELSE "delete"]
    /\ UNCHANGED <<now, YEAR, WEEK, GOOGLE_CREDENTIALS_JSON, requests, player_map,
                   weekly_stats_data,
                   processed_records, df, creds, finished, sheet0>>

\* "if data_df.empty: return", else sheet.append_rows(...); back in __main__
AppendRows(r) ==
    /\ pc[r] = "append"
    /\ IF df[r].val = <<>>
       THEN UNCHANGED <<sheet, ops>>
       ELSE /\ sheet' = append_rows(sheet, values_tolist(df[r].val))
            /\ ops' = [ops EXCEPT ![r].append_rows = @ + 1]
    /\ pc' = [pc EXCEPT ![r] = "done"]
    /\ finished' = [finished EXCEPT ![r] = TRUE]
    /\ UNCHANGED <<now, YEAR, WEEK, GOOGLE_CREDENTIALS_JSON, requests, player_map,
                   weekly_stats_data,
                   processed_records, df, creds, rows_to_delete, sheet0>>

Next ==
    \E r \in Runs :
        \/ FetchPlayers(r, RosterResponses)
        \/ FetchStats(r, StatsResponses)
        \/ Main(r)
        \/ LoadCredentials(r)
        \/ FindAll(r)
        \/ DeleteRow(r)
        \/ AppendRows(r)

Spec == Init /\ [][Next]_vars

(***************************************************************************)
(* SpecWeek: the script is loaded at every instant of the calendar in turn *)
(***************************************************************************)
next_day(n) ==
    IF n.day < DaysInMonth(n.year, n.month) THEN [n EXCEPT !.day = @ + 1]
    ELSE IF n.month < 12 THEN [n EXCEPT !.month = @ + 1, !.day = 1]
    ELSE [n EXCEPT !.year = @ + 1, !.month = 1, !.day = 1]

next_tick(n) ==
    IF n.tick < TicksPerDay - 1 THEN [n EXCEPT !.tick = @ + 1]
    ELSE [next_day(n) EXCEPT !.tick = 0]

LoadNext(n) ==
    /\ n.year <= LastYear
    /\ now' = n
    /\ YEAR' = get_current_nfl_week(n)[1]
    /\ WEEK' = get_current_nfl_week(n)[2]
    /\ UNCHANGED <<GOOGLE_CREDENTIALS_JSON, runVars, sheet, sheet0>>

\* the next load happens exactly one day later
AdvanceDay == LoadNext(next_day(now))

\* the next load happens at the next instant
AdvanceTick == LoadNext(next_tick(now))

InitWeek ==
    /\ LoadAt(datetime(FirstYear, 1, 1))
    /\ GOOGLE_CREDENTIALS_JSON = None
    /\ sheet = <<>>
    /\ sheet0 = sheet
    /\ InitRuns({})

NextWeek == AdvanceDay \/ AdvanceTick

SpecWeek == InitWeek /\ [][NextWeek]_vars

(***************************************************************************)
(* SpecTwo: two runs of the script overlap (a manual dispatch during a     *)
(* scheduled run); a worksheet call of either may raise, ending that run.  *)
(***************************************************************************)
SampleRosters == { [id \in {"1", "2"} |-> PlayerObject(id)] }

SampleStats == StatsOver({"1", "2"}, {[off_snp |-> 1]})

\* an uncaught exception out of delete_rows or append_rows, or the job is cancelled
Interrupt(r) ==
    /\ pc[r] \in {"delete", "append"}
    /\ pc' = [pc EXCEPT ![r] = "killed"]
    /\ UNCHANGED <<now, YEAR, WEEK, GOOGLE_CREDENTIALS_JSON, requests, player_map,
                   weekly_stats_data,
                   processed_records, df, creds, rows_to_delete, ops, finished,
                   sheet, sheet0>>

InitTwo ==
    /\ LoadAt([year |-> 2024, month |-> 10, day |-> 1, tick |-> 1])
    /\ GOOGLE_CREDENTIALS_JSON = "valid"
    /\ sheet \in Sheets
    /\ sheet0 = sheet
    /\ InitRuns(Runs)

NextTwo ==
    \E r \in Runs :
        \/ FetchPlayers(r, SampleRosters)
        \/ FetchStats(r, SampleStats)
        \/ Main(r)
        \/ LoadCredentials(r)
        \/ FindAll(r)
        \/ DeleteRow(r)
        \/ AppendRows(r)
        \/ Interrupt(r)

SpecTwo == InitTwo /\ [][NextTwo]_vars

(***************************************************************************)
(* SpecJoin: the join loop of fetch_and_process_data on its own, applied   *)
(* to every roster lookup and every weekly-stat dataset.                   *)
(***************************************************************************)
InitJoin ==
    /\ \E n \in SampleNow : LoadAt(n)
    /\ GOOGLE_CREDENTIALS_JSON = None
    /\ sheet = <<>>
    /\ sheet0 = sheet
    /\ pc = [r \in Runs |-> IF r = 1 THEN "join" ELSE "idle"]
    /\ requests = [r \in Runs |-> IF r = 1 THEN <<<<"players/nfl", 200>>,
                                                  <<"stats/nfl/regular", 200>>>>
                                           ELSE <<>>]
    /\ \E players_data \in RosterResponses :
        player_map = [r \in Runs |-> IF r = 1 THEN build_player_map(players_data)
                                     ELSE NoMap]
    /\ \E response \in StatsResponses :
        weekly_stats_data = [r \in Runs |-> IF r = 1 THEN response ELSE <<>>]
    /\ processed_records = [r \in Runs |-> NoneVal]
    /\ df = [r \in Runs |-> NoneVal]
    /\ creds = [r \in Runs |-> "unset"]
    /\ rows_to_delete = [r \in Runs |-> <<>>]
    /\ ops = [r \in Runs |-> NoOps]
    /\ finished = [r \in Runs |-> FALSE]

\* the loop over weekly_stats_data.items() and the return of all_player_stats
JoinLoop(r) ==
    /\ pc[r] = "join"
    /\ processed_records' = [processed_records EXCEPT ![r] =
            ListVal(join(player_map[r], weekly_stats_data[r], WEEK))]
    /\ pc' = [pc EXCEPT ![r] = "fetched"]
    /\ UNCHANGED <<now, YEAR, WEEK, GOOGLE_CREDENTIALS_JSON, requests, player_map,
                   weekly_stats_data, df, creds, rows_to_delete, ops, finished,
                   sheet, sheet0>>

NextJoin == \E r \in Runs : JoinLoop(r)

SpecJoin == InitJoin /\ [][NextJoin]_vars

(***************************************************************************)
(* Week resolver properties (SpecWeek).                                    *)
(***************************************************************************)
\* The season anchor as the prose defines it: 00:00 on the first Tuesday of
\* September, i.e. the September day that is a Tuesday with no Tuesday before it.
SeasonAnchor(y) ==
    LET d == CHOOSE d \in 1..30 :
                /\ weekday(datetime(y, 9, d)) = 1
                /\ \A e \in 1..(d - 1) : weekday(datetime(y, 9, e)) # 1
    IN  datetime(y, 9, d)

\* the pair the resolver returned, read as numbers
Season == IntOf(YEAR)
Week == IntOf(WEEK)

DaysAfterAnchor == toordinal(now) - toordinal(SeasonAnchor(now.year))

\* C3: every instant strictly before the season anchor of its own calendar
\* year resolves to (year - 1, 18).
C3_OffseasonIsPreviousWeek18 ==
    datetime_lt(now, SeasonAnchor(now.year))
        => /\ Season = now.year - 1
           /\ Week = 18
           /\ YEAR = str(now.year - 1) /\ WEEK = str(18)

\* the last instant before the anchor
C3_Witness ==
    /\ DaysAfterAnchor = -1
    /\ now.tick = TicksPerDay - 1
    /\ Season = now.year - 1
    /\ Week = 18

\* C4: a date exactly 7*k days after the anchor of its year (k >= 0) resolves
\* to (year, k + 1) when k < 17 and to (year, 18) when k >= 17; the anchor
\* date itself resolves to (year, 1); the week never exceeds 18.
C4_WeekOfSeventhDays ==
    /\ Week <= 18
    /\ (DaysAfterAnchor >= 0 /\ DaysAfterAnchor % 7 = 0) =>
          LET k == DaysAfterAnchor \div 7
          IN  /\ Season = now.year
              /\ Week = IF k < 17 THEN k + 1 ELSE 18
    /\ DaysAfterAnchor = 0 => (Season = now.year /\ Week = 1)

\* 119 days after the anchor (k = 17), still in the anchor's year
C4_Witness ==
    /\ DaysAfterAnchor = 7 * 17
    /\ Season = now.year
    /\ Week = 18

LexLeq(a, b) == a[1] < b[1] \/ (a[1] = b[1] /\ a[2] <= b[2])

C10_Range ==
    /\ Week \in 1..18
    /\ \/ Season = now.year
       \/ Season = now.year - 1 /\ Week = 18

\* C10: as the date advances, (season, week) never decreases in lexicographic
\* order, the week stays in 1..18, and the season is the date's calendar year
\* or the year before it, the latter only together with week 18.
C10_NeverDecreases ==
    /\ []C10_Range
    /\ [][LexLeq(<<Season, Week>>, <<Season', Week'>>)]_vars

\* 1 January after a year whose anchor was 7 September: 31 December was week
\* 17 of that season and the new year resolves to its week 18
C10_Witness ==
    /\ now.month = 1 /\ now.day = 1
    /\ SeasonAnchor(now.year - 1).day = 7
    /\ Season = now.year - 1
    /\ Week = 18

(***************************************************************************)
(* Pipeline properties (Spec, SpecJoin).                                   *)
(***************************************************************************)
IsWeekRow(row) == row[1] = WEEK
IsOtherRow(row) == row[1] # WEEK

\* the rows of a worksheet stored for the resolved week, and all the others
WeekRows(sh) == SelectSeq(sh, IsWeekRow)
OtherRows(sh) == SelectSeq(sh, IsOtherRow)

Untouched(r) == ops[r].delete_rows = 0 /\ ops[r].append_rows = 0

AllZeroSnaps(records) == \A i \in 1..Len(records) : records[i].SnapCounts = 0

\* C1: when the join yields at least one row and every joined row has snap
\* count 0, the run performs no persistence write: no row is deleted, nothing
\* is appended and the worksheet is exactly as it was.
C1_NoWriteWhenAllSnapsZero ==
    (/\ processed_records[1].some
     /\ processed_records[1].val # <<>>
     /\ AllZeroSnaps(processed_records[1].val))
        => (sheet = sheet0 /\ Untouched(1))

FailedAt(r, i) == i <= Len(requests[r]) /\ requests[r][i][2] # 200

\* C2: when either fetch returns a non-success status the pipeline returns no
\* rows, no request is repeated, no worksheet call is made and the worksheet is
\* unchanged; after a failed roster fetch the weekly-stats request is not issued.
C2_FetchFailureMeansNoData ==
    (FailedAt(1, 1) \/ FailedAt(1, 2)) =>
        /\ ~processed_records[1].some
        /\ ~df[1].some
        /\ pc[1] \in {"fetched", "done"}
        /\ Len(requests[1]) <= 2
        /\ \A i, j \in 1..Len(requests[1]) : i # j => requests[1][i][1] # requests[1][j][1]
        /\ FailedAt(1, 1) => Len(requests[1]) = 1
        /\ ops[1] = NoOps
        /\ sheet = sheet0

\* the roster fetch failed, the run is over and the worksheet still holds its
\* rows for the resolved week
C2_Witness ==
    /\ FailedAt(1, 1)
    /\ pc[1] = "done" /\ finished[1]
    /\ WeekRows(sheet0) # <<>>
    /\ sheet = sheet0

NameOf(id) == full_name(PlayerObject(id))

RowsNamed(records, name) == { i \in 1..Len(records) : records[i].PlayerName = name }

InStats(items, id) == \E i \in 1..Len(items) : items[i][1] = id

\* C5: the join is an inner join on identifier: one row for every identifier
\* present in both the roster lookup and the weekly-stat dataset, and no row for
\* an identifier of the weekly-stat dataset that the roster lookup lacks.
C5_InnerJoin ==
    (pc[1] = "fetched" /\ processed_records[1].some) =>
        LET rows == processed_records[1].val
            both == { id \in Ids : id \in DOMAIN player_map[1]
                                   /\ InStats(weekly_stats_data[1], id) }
        IN  /\ Len(rows) = Cardinality(both)
            /\ \A id \in Ids :
                Cardinality(RowsNamed(rows, NameOf(id))) = IF id \in both THEN 1 ELSE 0

\* the dataset names a player the roster lacks, ahead of two it has
C5_Witness ==
    /\ pc[1] = "fetched" /\ processed_records[1].some
    /\ Len(weekly_stats_data[1]) = 3
    /\ weekly_stats_data[1][1][1] \notin DOMAIN player_map[1]
    /\ Len(processed_records[1].val) = 2

KeptIndexes(records) == { i \in 1..Len(records) : records[i].SnapCounts # 0 }

\* the k-th index, in order, of a record whose snap count is not zero
KthKept(records, k) ==
    CHOOSE i \in KeptIndexes(records) :
        Cardinality({ j \in KeptIndexes(records) : j < i }) = k - 1

\* C6: every row handed to update_google_sheet has snap count > 0; a joined
\* row is dropped if and only if its snap count is 0; the survivors keep the
\* order of the weekly-stat dataset.
C6_FilterDropsExactlyZeroSnaps ==
    df[1].some =>
        LET records == processed_records[1].val
            kept == df[1].val
        IN  /\ \A k \in 1..Len(kept) : kept[k].SnapCounts > 0
            /\ Len(kept) = Cardinality(KeptIndexes(records))
            /\ \A k \in 1..Len(kept) : kept[k] = records[KthKept(records, k)]

\* three joined rows, the middle one with no snaps, two handed on in order
C6_Witness ==
    /\ pc[1] = "update"
    /\ Len(processed_records[1].val) = 3
    /\ processed_records[1].val[2].SnapCounts = 0
    /\ df[1].val = <<processed_records[1].val[1], processed_records[1].val[3]>>

NoCredentials(r) == creds[r] \in {"FileNotFoundError", "ValueError"}

NoWorksheetCall(r) == ops[r] = NoOps /\ sheet = sheet0

C8_ReplaceWeekRows ==
    /\ (pc[1] = "done" /\ ops[1].append_rows = 1) =>
          /\ \A i \in 1..Len(sheet0) :
                IsWeekRow(sheet0[i]) => \A j \in 1..Len(sheet) : sheet[j] # sheet0[i]
          /\ OtherRows(sheet) = OtherRows(sheet0)
          /\ WeekRows(sheet) = values_tolist(df[1].val)
          /\ sheet = OtherRows(sheet0) \o values_tolist(df[1].val)
          /\ ops[1].delete_rows = Len(WeekRows(sheet0))
    /\ pc[1] = "append" => sheet = OtherRows(sheet0)

\* the worksheet held rows of the week around a row of another week
C8_Witness ==
    /\ pc[1] = "done" /\ ops[1].append_rows = 1
    /\ Len(sheet0) >= 3
    /\ IsWeekRow(sheet0[1]) /\ IsOtherRow(sheet0[2]) /\ IsWeekRow(sheet0[3])
    /\ Len(df[1].val) >= 2

(***************************************************************************)
(* Non-atomicity of the update (SpecTwo).                                  *)
(***************************************************************************)
OtherRun(r) == CHOOSE q \in Runs : q # r

\* C9: the delete-then-append update is not atomic.  A run interrupted between
\* its worksheet calls, after at least one delete and with the other run not
\* having changed the worksheet, leaves the week partially or wholly deleted:
\* the bottom-most matching rows are gone, the rest of the old rows are still
\* there, and nothing of the new batch has been written.  (The witness is the
\* other half of the claim: two interleaved complete runs write the week twice.)
C9_InterruptedRunLeavesWeekTorn ==
    \A r \in Runs :
        (pc[r] = "killed" /\ ops[r].delete_rows >= 1 /\ Untouched(OtherRun(r))) =>
            LET old == WeekRows(sheet0)
            IN  /\ ops[r].append_rows = 0
                /\ ops[r].delete_rows <= Len(old)
                /\ WeekRows(sheet) = SubSeq(old, 1, Len(old) - ops[r].delete_rows)
                /\ WeekRows(sheet) # old
                /\ OtherRows(sheet) = OtherRows(sheet0)

\* both runs completed, neither was interrupted, both had the same non-empty
\* batch for the week, and the worksheet ends with that batch written twice
C9_Witness ==
    /\ pc[1] = "done" /\ pc[2] = "done"
    /\ df[1].val # <<>> /\ df[2].val = df[1].val
    /\ WeekRows(sheet0) # <<>>
    /\ WeekRows(sheet) = values_tolist(df[1].val) \o values_tolist(df[2].val)
    /\ WeekRows(sheet) # WeekRows(sheet0)
    /\ WeekRows(sheet) # values_tolist(df[1].val)
=============================================================================
